---------------------------- MODULE Spec2Model ----------------------------
(***************************************************************************)
(* A model of src/app.py: the /compare request handler of the FPL          *)
(* comparison service and the helper functions it is built from.           *)
(*                                                                         *)
(* Text is modelled by TLA+ strings; a character is a string of length 1.  *)
(* An optional value (Python's None or a value) is a sequence of length 0  *)
(* or 1.  Kickoff times and match dates are fixed-width ISO strings in the *)
(* upstream data, which Python compares as text; they are modelled by      *)
(* integers, whose order is the order of such strings.                     *)
(***************************************************************************)
EXTENDS Integers, Sequences, FiniteSets, TLC

VARIABLES
    pc,         \* position of the handler, or of the function under study
    query,      \* the `players` query parameter: None or Some(text)
    names,      \* compare_players: names
    static,     \* load_fpl_data: static, None until fetched
    players,    \* compare_players: players
    teams,      \* compare_players: teams
    fixtures,   \* compare_players: fixtures
    historical_matches, \* compare_players: historical_matches
    all_matches,        \* load_historical_data: all_matches
    season,             \* load_historical_data: index of the season in turn
    results,    \* compare_players: results
    response,   \* the HTTP response: None or Some([status, kind, body])
    calls,      \* the outbound requests made so far, in order
    arg,        \* the arguments of the function under study
    ret         \* its return value, once it has returned

vars == << pc, query, names, static, players, teams, fixtures,
           historical_matches, all_matches, season, results, response, calls,
           arg, ret >>

None == << >>
Some(x) == << x >>

Min(a, b) == IF a <= b THEN a ELSE b

Range(s) == { s[i] : i \in DOMAIN s }

(***************************************************************************)
(* Text                                                                    *)
(***************************************************************************)
Char(s, i) == SubSeq(s, i, i)

UpperLetters == "ABCDEFGHIJKLMNOPQRSTUVWXYZ"
LowerLetters == "abcdefghijklmnopqrstuvwxyz"

\* The ASCII characters the model's texts use, in code-point order.
AsciiOrder == " &',-.0123456789" \o UpperLetters \o LowerLetters

AsciiChars == { Char(AsciiOrder, i) : i \in 1..Len(AsciiOrder) }

IsAscii(c) == c \in AsciiChars

\* Code-point order of the ASCII characters.
OrdOf == [ c \in AsciiChars |->
             CHOOSE i \in 1..Len(AsciiOrder) : Char(AsciiOrder, i) = c ]

Ord(c) == OrdOf[c]

\* unicodedata.normalize('NFD', c).encode('ascii', 'ignore'): an accented
\* letter decomposes into its base letter and a combining mark, which is
\* dropped; any other non-ASCII character is dropped whole.
AsciiOfChar(c) ==
    IF IsAscii(c) THEN c
    ELSE IF c = "é" THEN "e"
    ELSE IF c = "É" THEN "E"
    ELSE IF c = "ö" THEN "o"
    ELSE IF c = "ü" THEN "u"
    ELSE IF c = "ú" THEN "u"
    ELSE IF c = "ñ" THEN "n"
    ELSE ""

RECURSIVE ToAscii(_)
ToAscii(s) ==
    IF Len(s) = 0 THEN ""
    ELSE AsciiOfChar(Char(s, 1)) \o ToAscii(Tail(s))

IsSpace(c) == c = " "

RECURSIVE LStrip(_)
LStrip(s) ==
    IF Len(s) > 0 /\ IsSpace(Char(s, 1)) THEN LStrip(Tail(s)) ELSE s

RECURSIVE RStrip(_)
RStrip(s) ==
    IF Len(s) > 0 /\ IsSpace(Char(s, Len(s)))
    THEN RStrip(SubSeq(s, 1, Len(s) - 1))
    ELSE s

\* str.strip()
Strip(s) == RStrip(LStrip(s))

LowerOf == [ c \in { Char(UpperLetters, i) : i \in 1..Len(UpperLetters) } |->
               Char(LowerLetters,
                    CHOOSE i \in 1..Len(UpperLetters) : Char(UpperLetters, i) = c) ]

LowerChar(c) == IF c \in DOMAIN LowerOf THEN LowerOf[c] ELSE c

RECURSIVE Lower(_)
\* str.lower()
Lower(s) ==
    IF Len(s) = 0 THEN "" ELSE LowerChar(Char(s, 1)) \o Lower(Tail(s))

\* normalize(text)
normalize(text) == Lower(Strip(ToAscii(text)))

\* `sub in text` for Python strings
Contains(sub, text) ==
    \E i \in 1..(Len(text) - Len(sub) + 1) :
        SubSeq(text, i, i + Len(sub) - 1) = sub

RECURSIVE StrLess(_, _)
\* Python's `a < b` for strings: lexicographic by code point.
StrLess(a, b) ==
    IF Len(b) = 0 THEN FALSE
    ELSE IF Len(a) = 0 THEN TRUE
    ELSE IF Char(a, 1) = Char(b, 1) THEN StrLess(Tail(a), Tail(b))
    ELSE Ord(Char(a, 1)) < Ord(Char(b, 1))

(***************************************************************************)
(* Sorting: Python's sort is stable.                                       *)
(***************************************************************************)
RECURSIVE InsertPair(_, _)
\* the pair x = <<key, value>> placed after every pair of the sorted s whose
\* key is not greater than its own
InsertPair(x, s) ==
    IF Len(s) = 0 THEN << x >>
    ELSE IF x[1] < Head(s)[1] THEN << x >> \o s
    ELSE << Head(s) >> \o InsertPair(x, Tail(s))

RECURSIVE SortPairs(_)
SortPairs(s) ==
    IF Len(s) = 0 THEN << >>
    ELSE InsertPair(s[Len(s)], SortPairs(SubSeq(s, 1, Len(s) - 1)))

\* sorted(s, key=...): s in ascending order of the integer keys key[i] of its
\* elements, elements of equal key in their original order
SortedByKey(s, key) ==
    LET sorted == SortPairs([i \in 1..Len(s) |-> << key[i], s[i] >>])
    IN  [i \in 1..Len(s) |-> sorted[i][2]]

\* s[:n]
Take(s, n) == SubSeq(s, 1, Min(n, Len(s)))

(***************************************************************************)
(* Head-to-head history.  A historical match is a record                   *)
(* [team1, team2, date, season, ft]: team1 is the home side and ft is      *)
(* << team1's goals, team2's goals >> (match['score']['ft']).              *)
(***************************************************************************)

\* find_head_to_head_matches: the test of line 83-84
InvolvesBoth(team1_norm, team2_norm, match) ==
    LET team1_match == normalize(match.team1)
        team2_match == normalize(match.team2)
    IN  \/ Contains(team1_norm, team1_match) /\ Contains(team2_norm, team2_match)
        \/ Contains(team1_norm, team2_match) /\ Contains(team2_norm, team1_match)

\* find_head_to_head_matches: the record appended for a match, lines 87-105
H2HEntry(team1_name, team2_name, team1_norm, match) ==
    IF Contains(team1_norm, normalize(match.team1))
    THEN [ date |-> match.date, season |-> match.season,
           home_team |-> team1_name, away_team |-> team2_name,
           home_score |-> match.ft[1], away_score |-> match.ft[2] ]
    ELSE [ date |-> match.date, season |-> match.season,
           home_team |-> team2_name, away_team |-> team1_name,
           home_score |-> match.ft[2], away_score |-> match.ft[1] ]

RECURSIVE H2HCollect(_, _, _, _, _)
\* find_head_to_head_matches: the loop of lines 78-105
H2HCollect(team1_name, team2_name, team1_norm, team2_norm, hist) ==
    IF Len(hist) = 0 THEN << >>
    ELSE LET rest == H2HCollect(team1_name, team2_name, team1_norm, team2_norm,
                                SubSeq(hist, 1, Len(hist) - 1))
             match == hist[Len(hist)]
         IN  IF InvolvesBoth(team1_norm, team2_norm, match)
             THEN Append(rest, H2HEntry(team1_name, team2_name, team1_norm, match))
             ELSE rest

\* Mutant: reverse=True is left out.
SortByDateDesc_Ascending(matches) ==
    SortedByKey(matches, [i \in 1..Len(matches) |-> matches[i].date])

\* matches.sort(key=lambda x: x['date'], reverse=True): a stable sort, the
\* matches of one date staying in their original order
SortByDateDesc(matches) ==
    SortedByKey(matches, [i \in 1..Len(matches) |-> 0 - matches[i].date])

H2HLimit == 4

find_head_to_head_matches(team1_name, team2_name, hist) ==
    LET team1_norm == normalize(team1_name)
        team2_norm == normalize(team2_name)
    IN  Take(SortByDateDesc(H2HCollect(team1_name, team2_name,
                                       team1_norm, team2_norm, hist)),
             H2HLimit)

\* Mutant: the summary always reads the score as the home side's.
SummaryResult_HomeOnly(match, player_team) ==
    IF match.home_score > match.away_score THEN "W"
    ELSE IF match.home_score < match.away_score THEN "L"
    ELSE "D"

\* The result of one match for player_team: generate_h2h_summary lines
\* 121-136
SummaryResult(match, player_team) ==
    IF match.home_team = player_team
    THEN IF match.home_score > match.away_score THEN "W"
         ELSE IF match.home_score < match.away_score THEN "L"
         ELSE "D"
    ELSE IF match.away_score > match.home_score THEN "W"
         ELSE IF match.away_score < match.home_score THEN "L"
         ELSE "D"

\* generate_h2h_summary: wins, draws and losses after the loop of lines
\* 120-136
H2HCounts(matches, player_team) ==
    LET n(letter) == Cardinality({ i \in 1..Len(matches) :
                                   SummaryResult(matches[i], player_team) = letter })
    IN  [ wins |-> n("W"), draws |-> n("D"), losses |-> n("L") ]

RECURSIVE Join(_, _)
\* sep.join(parts)
Join(sep, parts) ==
    IF Len(parts) = 0 THEN ""
    ELSE IF Len(parts) = 1 THEN parts[1]
    ELSE parts[1] \o sep \o Join(sep, Tail(parts))

generate_h2h_summary(matches, player_team) ==
    IF Len(matches) = 0 THEN "No recent matches"
    ELSE LET c == H2HCounts(matches, player_team)
             parts ==
                 (IF c.wins > 0
                  THEN << ToString(c.wins) \o " win" \o
                          (IF c.wins # 1 THEN "s" ELSE "") >>
                  ELSE << >>) \o
                 (IF c.draws > 0
                  THEN << ToString(c.draws) \o " draw" \o
                          (IF c.draws # 1 THEN "s" ELSE "") >>
                  ELSE << >>) \o
                 (IF c.losses > 0
                  THEN << ToString(c.losses) \o " loss" \o
                          (IF c.losses # 1 THEN "es" ELSE "") >>
                  ELSE << >>)
         IN  IF Len(parts) > 0 THEN Join(", ", parts) ELSE "No recent matches"

\* format_h2h_data: the record appended for a match, lines 157-180
FormatMatch(match, player_team) ==
    LET venue == IF match.home_team = player_team THEN "home" ELSE "away"
        result ==
            IF match.home_team = player_team
            THEN IF match.home_score > match.away_score THEN "W"
                 ELSE IF match.home_score < match.away_score THEN "L"
                 ELSE "D"
            ELSE IF match.away_score > match.home_score THEN "W"
                 ELSE IF match.away_score < match.home_score THEN "L"
                 ELSE "D"
    IN  [ date |-> match.date, season |-> match.season,
          result |-> result, venue |-> venue,
          full_time_score |-> ToString(match.home_score) \o "-" \o
                              ToString(match.away_score) ]

\* format_h2h_data: None, or Some([summary, matches])
format_h2h_data(matches, player_team) ==
    IF Len(matches) = 0 THEN None
    ELSE Some([ summary |-> generate_h2h_summary(matches, player_team),
                matches |-> [i \in 1..Len(matches) |->
                                FormatMatch(matches[i], player_team)] ])

(***************************************************************************)
(* Bounded sets of inputs                                                  *)
(***************************************************************************)
SeqsUpTo(S, n) == UNION { [1..k -> S] : k \in 0..n }

\* The variables of the request handler while a helper function is studied
\* on its own.
NoRequest ==
    /\ query = None
    /\ names = << >>
    /\ static = None
    /\ players = << >>
    /\ teams = << >>
    /\ fixtures = << >>
    /\ historical_matches = << >>
    /\ all_matches = << >>
    /\ season = 1
    /\ results = << >>
    /\ response = None
    /\ calls = << >>

requestVars == << query, names, static, players, teams, fixtures,
                  historical_matches, all_matches, season, results, response,
                  calls >>

(***************************************************************************)
(* The head-to-head functions on their own: get_next_fixtures lines        *)
(* 271-272 for one pairing, the player's team first.                       *)
(***************************************************************************)
MaxHist == 5

H2HTeamNames == { "Arsenal", "Chelsea" }

HistPool ==
    { [ team1 |-> "Arsenal FC", team2 |-> "Chelsea FC", date |-> 20231021,
        season |-> "2023/24", ft |-> << 3, 1 >> ],
      [ team1 |-> "Arsenal FC", team2 |-> "Chelsea FC", date |-> 20230502,
        season |-> "2022/23", ft |-> << 1, 1 >> ],
      [ team1 |-> "Chelsea FC", team2 |-> "Arsenal FC", date |-> 20221106,
        season |-> "2022/23", ft |-> << 0, 1 >> ],
      [ team1 |-> "Arsenal FC", team2 |-> "Liverpool FC", date |-> 20240204,
        season |-> "2023/24", ft |-> << 3, 1 >> ] }

InitH2H ==
    /\ pc = "find"
    /\ arg \in [ team1_name : H2HTeamNames, team2_name : H2HTeamNames,
                 historical_matches : SeqsUpTo(HistPool, MaxHist) ]
    /\ ret = [ h2h_matches |-> << >>, h2h_data |-> None,
               counts |-> [ wins |-> 0, draws |-> 0, losses |-> 0 ] ]
    /\ NoRequest

\* h2h_matches = find_head_to_head_matches(team_name_mapped, opp_name_mapped,
\*                                         historical_matches)
FindH2H ==
    /\ pc = "find"
    /\ ret' = [ ret EXCEPT !.h2h_matches =
                  find_head_to_head_matches(arg.team1_name, arg.team2_name,
                                            arg.historical_matches) ]
    /\ pc' = "format"
    /\ UNCHANGED << arg, requestVars >>

\* h2h_data = format_h2h_data(h2h_matches, team_name_mapped); counts are the
\* wins, draws and losses generate_h2h_summary has counted at line 137
FormatH2H ==
    /\ pc = "format"
    /\ ret' = [ ret EXCEPT
                  !.h2h_data = format_h2h_data(ret.h2h_matches, arg.team1_name),
                  !.counts = IF Len(ret.h2h_matches) = 0 THEN @
                             ELSE H2HCounts(ret.h2h_matches, arg.team1_name) ]
    /\ pc' = "done"
    /\ UNCHANGED << arg, requestVars >>

NextH2H == FindH2H \/ FormatH2H

SpecH2H == InitH2H /\ [][NextH2H]_vars

\* The historical matches in which the teams named a and b are the two
\* participants, by the containment test on normalized names.
Participants(a, b, m) ==
    LET h == normalize(m.team1)
        w == normalize(m.team2)
    IN  (Contains(a, h) /\ Contains(b, w)) \/ (Contains(a, w) /\ Contains(b, h))

PairingMatches ==
    LET a == normalize(arg.team1_name)
        b == normalize(arg.team2_name)
    IN  { i \in 1..Len(arg.historical_matches) :
            Participants(a, b, arg.historical_matches[i]) }

\* C6: the head-to-head list has at most 4 entries, is sorted descending by
\* date, and holds the most recent of the matches between the two teams:
\* every entry is one of those matches, and a match of the pairing more
\* recent than a returned one is returned too.
C6_H2HMostRecentFour ==
    pc \in { "format", "done" } =>
        LET out == ret.h2h_matches
            hist == arg.historical_matches
            pairing == PairingMatches
            PairingOn(d) == Cardinality({ i \in pairing : hist[i].date = d })
            ReturnedOn(d) == Cardinality({ j \in 1..Len(out) : out[j].date = d })
        IN  /\ Len(out) <= 4
            /\ Len(out) = Min(4, Cardinality(pairing))
            /\ \A i, j \in 1..Len(out) : i < j => out[i].date >= out[j].date
            /\ \A j \in 1..Len(out) :
                 /\ ReturnedOn(out[j].date) <= PairingOn(out[j].date)
                 /\ \E i \in pairing :
                      /\ hist[i].date = out[j].date
                      /\ hist[i].season = out[j].season
            /\ \A i \in pairing : \A j \in 1..Len(out) :
                 hist[i].date > out[j].date =>
                     ReturnedOn(hist[i].date) = PairingOn(hist[i].date)

\* C6 witness: five matches of the pairing, on more than one date, of which
\* the four most recent are returned and an older one is left out.
C6_Witness ==
    /\ pc = "done"
    /\ Cardinality(PairingMatches) = 5
    /\ Len(ret.h2h_matches) = 4
    /\ ret.h2h_matches[1].date > ret.h2h_matches[4].date
    /\ \E i \in PairingMatches :
         arg.historical_matches[i].date < ret.h2h_matches[4].date

Letters(l) ==
    Cardinality({ i \in 1..Len(ret.h2h_data[1].matches) :
                    ret.h2h_data[1].matches[i].result = l })

\* C7: for a non-empty head-to-head list the win, draw and loss counts of the
\* summary sum to the number of matches of the list and equal the numbers of
\* 'W', 'D' and 'L' result letters of the block's match records.
C7_CountsMatchLetters ==
    (pc = "done" /\ Len(ret.h2h_matches) > 0) =>
        /\ Len(ret.h2h_data) = 1
        /\ Len(ret.h2h_data[1].matches) = Len(ret.h2h_matches)
        /\ ret.counts.wins + ret.counts.draws + ret.counts.losses
             = Len(ret.h2h_matches)
        /\ ret.counts.wins = Letters("W")
        /\ ret.counts.draws = Letters("D")
        /\ ret.counts.losses = Letters("L")

\* C7 witness: a list with a win, a draw and a loss, home and away.
C7_Witness ==
    /\ pc = "done"
    /\ Len(ret.h2h_matches) >= 3
    /\ ret.counts.wins > 0 /\ ret.counts.draws > 0 /\ ret.counts.losses > 0
    /\ \E i, j \in 1..Len(ret.h2h_data[1].matches) :
         /\ ret.h2h_data[1].matches[i].venue = "home"
         /\ ret.h2h_data[1].matches[j].venue = "away"

\* Whether the player's team, the first team a of the pairing (a, b), is the
\* home side of historical match m: whether it is m's team1.
PlayerIsHome(a, b, m) ==
    Contains(a, normalize(m.team1)) /\ Contains(b, normalize(m.team2))

PlayerVenue(a, b, m) == IF PlayerIsHome(a, b, m) THEN "home" ELSE "away"

\* The result of m for the player's team, whose goals are ft[1] when it is
\* the home side and ft[2] otherwise.
PlayerResult(a, b, m) ==
    LET own == IF PlayerIsHome(a, b, m) THEN m.ft[1] ELSE m.ft[2]
        opp == IF PlayerIsHome(a, b, m) THEN m.ft[2] ELSE m.ft[1]
    IN  IF own > opp THEN "W" ELSE IF own < opp THEN "L" ELSE "D"

\* C9: every head-to-head record gives the venue and the result letter of
\* its historical match from the perspective of the player's team: 'home'
\* exactly when that team is the match's first participant, and 'W', 'L' or
\* 'D' as that team's full-time score is greater than, less than or equal
\* to the opponent's.
C9_PlayerPerspective ==
    pc = "done" =>
        LET a == normalize(arg.team1_name)
            b == normalize(arg.team2_name)
            pairing == PairingMatches
        IN  \A j \in 1..Len(ret.h2h_data) :
              \A r \in Range(ret.h2h_data[j].matches) :
                \E i \in pairing :
                    LET m == arg.historical_matches[i]
                    IN  /\ m.date = r.date
                        /\ m.season = r.season
                        /\ r.venue = PlayerVenue(a, b, m)
                        /\ r.result = PlayerResult(a, b, m)

(***************************************************************************)
(* Fixtures.  A team is [id, name]; a fixture is [team_h, team_a,          *)
(* team_h_difficulty, team_a_difficulty, kickoff_time].                    *)
(***************************************************************************)
fdr_labels ==
    (1 :> "Very Easy") @@ (2 :> "Easy") @@ (3 :> "Evenly Matched") @@
    (4 :> "Difficult") @@ (5 :> "Likely To Lose")

\* fdr_labels.get(difficulty, "Unknown")
FdrLabel(difficulty) ==
    IF difficulty \in DOMAIN fdr_labels THEN fdr_labels[difficulty]
    ELSE "Unknown"

team_name_mapping ==
    ("Man City" :> "Manchester City") @@
    ("Man Utd" :> "Manchester United") @@
    ("Spurs" :> "Tottenham Hotspur") @@
    ("Newcastle" :> "Newcastle United") @@
    ("Brighton" :> "Brighton & Hove Albion") @@
    ("West Ham" :> "West Ham United") @@
    ("Crystal Palace" :> "Crystal Palace") @@
    ("Aston Villa" :> "Aston Villa") @@
    ("Brentford" :> "Brentford") @@
    ("Fulham" :> "Fulham") @@
    ("Wolves" :> "Wolverhampton Wanderers") @@
    ("Burnley" :> "Burnley") @@
    ("Luton" :> "Luton Town") @@
    ("Sheffield Utd" :> "Sheffield United") @@
    ("Nottingham Forest" :> "Nottingham Forest") @@
    ("Nott'm Forest" :> "Nottingham Forest") @@
    ("Everton" :> "Everton") @@
    ("Chelsea" :> "Chelsea") @@
    ("Liverpool" :> "Liverpool") @@
    ("Arsenal" :> "Arsenal") @@
    ("Bournemouth" :> "AFC Bournemouth")

RECURSIVE get_team_name(_, _)
get_team_name(team_id, teams_) ==
    IF Len(teams_) = 0 THEN "Unknown"
    ELSE IF Head(teams_).id = team_id THEN Head(teams_).name
    ELSE get_team_name(team_id, Tail(teams_))

map_team_name(fpl_name) ==
    IF fpl_name \in DOMAIN team_name_mapping THEN team_name_mapping[fpl_name]
    ELSE fpl_name

\* get_next_fixtures: the test of line 257
InvolvesTeam(f, team_id) == f.team_h = team_id \/ f.team_a = team_id

\* get_next_fixtures: the fixture_data built for a fixture of the team, lines
\* 258-287.  head_to_head = None stands for the absent key.
FixtureData(f, team_id, teams_, hist) ==
    LET is_home == f.team_h = team_id
        opp_id == IF is_home THEN f.team_a ELSE f.team_h
        difficulty == IF is_home THEN f.team_h_difficulty
                      ELSE f.team_a_difficulty
        team_name == get_team_name(team_id, teams_)
        opp_name == get_team_name(opp_id, teams_)
        team_name_mapped == map_team_name(team_name)
        opp_name_mapped == map_team_name(opp_name)
        h2h_matches == find_head_to_head_matches(team_name_mapped,
                                                 opp_name_mapped, hist)
        h2h_data == format_h2h_data(h2h_matches, team_name_mapped)
    IN  [ opponent |-> opp_name,
          home |-> is_home,
          kickoff_time |-> f.kickoff_time,
          label |-> FdrLabel(difficulty),
          difficulty |-> difficulty,
          head_to_head |-> h2h_data ]

RECURSIVE Upcoming(_, _, _, _)
\* get_next_fixtures: the loop of lines 256-289
Upcoming(team_id, fixtures_, teams_, hist) ==
    IF Len(fixtures_) = 0 THEN << >>
    ELSE LET rest == Upcoming(team_id, SubSeq(fixtures_, 1, Len(fixtures_) - 1),
                              teams_, hist)
             f == fixtures_[Len(fixtures_)]
         IN  IF InvolvesTeam(f, team_id)
             THEN Append(rest, FixtureData(f, team_id, teams_, hist))
             ELSE rest

\* Mutant: the list is not sorted.
SortByKickoff_Unsorted(upcoming) == upcoming

\* sorted(upcoming, key=lambda x: x['kickoff_time'])
SortByKickoff(upcoming) ==
    SortedByKey(upcoming, [i \in 1..Len(upcoming) |-> upcoming[i].kickoff_time])

FixtureLimit == 4

get_next_fixtures(team_id, fixtures_, teams_, hist) ==
    Take(SortByKickoff(Upcoming(team_id, fixtures_, teams_, hist)), FixtureLimit)

RECURSIVE LabelsInOrder(_)
\* the keys of counts, in the order summarize_difficulty first sees them
LabelsInOrder(fs) ==
    IF Len(fs) = 0 THEN << >>
    ELSE LET rest == LabelsInOrder(SubSeq(fs, 1, Len(fs) - 1))
             label == fs[Len(fs)].label
         IN  IF label \in Range(rest) THEN rest ELSE Append(rest, label)

summarize_difficulty(fs) ==
    LET labels == LabelsInOrder(fs)
        count(k) == Cardinality({ i \in 1..Len(fs) : fs[i].label = k })
    IN  Join(", ", [i \in 1..Len(labels) |->
                      ToString(count(labels[i])) \o " " \o Lower(labels[i])])

(***************************************************************************)
(* get_next_fixtures on its own                                            *)
(***************************************************************************)
MaxFixtures == 5

TeamsWorld ==
    << [ id |-> 1, name |-> "Arsenal" ],
       [ id |-> 2, name |-> "Liverpool" ],
       [ id |-> 3, name |-> "Spurs" ] >>

TeamIds == { 1, 2, 3 }

FixturePool ==
    { [ team_h |-> 1, team_a |-> 2, team_h_difficulty |-> 3,
        team_a_difficulty |-> 4, kickoff_time |-> 20240831 ],
      [ team_h |-> 2, team_a |-> 1, team_h_difficulty |-> 4,
        team_a_difficulty |-> 3, kickoff_time |-> 20240817 ],
      [ team_h |-> 1, team_a |-> 3, team_h_difficulty |-> 2,
        team_a_difficulty |-> 5, kickoff_time |-> 20240824 ],
      [ team_h |-> 3, team_a |-> 2, team_h_difficulty |-> 0,
        team_a_difficulty |-> 2, kickoff_time |-> 20240817 ] }

HistWorld ==
    << [ team1 |-> "Arsenal FC", team2 |-> "Liverpool FC", date |-> 20240204,
         season |-> "2023/24", ft |-> << 3, 1 >> ],
       [ team1 |-> "Tottenham Hotspur FC", team2 |-> "Arsenal FC",
         date |-> 20230115, season |-> "2022/23", ft |-> << 0, 2 >> ],
       [ team1 |-> "Liverpool FC", team2 |-> "Arsenal FC", date |-> 20230409,
         season |-> "2022/23", ft |-> << 2, 2 >> ] >>

InitFixtures ==
    /\ pc = "call"
    /\ arg \in [ team_id : TeamIds,
                 fixtures : SeqsUpTo(FixturePool, MaxFixtures),
                 teams : { TeamsWorld },
                 historical_matches : { << >>, HistWorld } ]
    /\ ret = << >>
    /\ NoRequest

\* next_games = get_next_fixtures(player['team'], fixtures, teams,
\*                                historical_matches)
CallGetNextFixtures ==
    /\ pc = "call"
    /\ ret' = get_next_fixtures(arg.team_id, arg.fixtures, arg.teams,
                                arg.historical_matches)
    /\ pc' = "done"
    /\ UNCHANGED << arg, requestVars >>

NextFixtures == CallGetNextFixtures

SpecFixtures == InitFixtures /\ [][NextFixtures]_vars

\* What a returned entry shows of the fixture it was made from.
EntryView(e) ==
    [ kickoff_time |-> e.kickoff_time, home |-> e.home,
      opponent |-> e.opponent, difficulty |-> e.difficulty ]

\* What an entry made from fixture f for the team must show: f's kickoff
\* time, whether the team is f's home side, the other side's name and the
\* team's own difficulty rating.
FixtureView(f, team_id, teams_) ==
    [ kickoff_time |-> f.kickoff_time,
      home |-> (f.team_h = team_id),
      opponent |-> get_team_name(IF f.team_h = team_id THEN f.team_a
                                 ELSE f.team_h, teams_),
      difficulty |-> IF f.team_h = team_id THEN f.team_h_difficulty
                     ELSE f.team_a_difficulty ]

\* C5: the list returned by get_next_fixtures has at most 4 entries, is
\* sorted ascending by kickoff time, holds only fixtures in which the team
\* is the home or away side (each at most as often as it is listed), and
\* holds those of earliest kickoff: a fixture of the team that kicks off
\* before a returned one is returned too.
C5_NextFixturesEarliestFour ==
    pc = "done" =>
        LET out == ret
            fx == arg.fixtures
            own == { i \in 1..Len(fx) :
                       fx[i].team_h = arg.team_id \/ fx[i].team_a = arg.team_id }
            view == [ i \in own |-> FixtureView(fx[i], arg.team_id, arg.teams) ]
            Listed(v) == Cardinality({ i \in own : view[i] = v })
            Returned(v) == Cardinality({ j \in 1..Len(out) : EntryView(out[j]) = v })
        IN  /\ Len(out) <= 4
            /\ Len(out) = Min(4, Cardinality(own))
            /\ \A i, j \in 1..Len(out) :
                 i < j => out[i].kickoff_time <= out[j].kickoff_time
            /\ \A j \in 1..Len(out) :
                 /\ \E i \in own : view[i] = EntryView(out[j])
                 /\ Returned(EntryView(out[j])) <= Listed(EntryView(out[j]))
            /\ \A i \in own : \A j \in 1..Len(out) :
                 fx[i].kickoff_time < out[j].kickoff_time =>
                     Returned(view[i]) = Listed(view[i])

\* C5 witness: the team has five fixtures, home and away, on more than one
\* kickoff time; four are returned and a later one is left out.
C5_Witness ==
    /\ pc = "done"
    /\ Len(ret) = 4
    /\ ret[1].kickoff_time < ret[4].kickoff_time
    /\ \E i, j \in 1..4 : ret[i].home /\ ~ret[j].home
    /\ Cardinality({ i \in 1..Len(arg.fixtures) :
                       arg.fixtures[i].team_h = arg.team_id
                         \/ arg.fixtures[i].team_a = arg.team_id }) = 5
    /\ \E i \in 1..Len(arg.fixtures) :
         /\ arg.fixtures[i].team_h = arg.team_id
              \/ arg.fixtures[i].team_a = arg.team_id
         /\ arg.fixtures[i].kickoff_time > ret[4].kickoff_time

(***************************************************************************)
(* Player matching.  A player is [web_name, first_name, second_name, team, *)
(* now_cost, points_per_game, status].                                     *)
(***************************************************************************)

\* difflib.SequenceMatcher.find_longest_match over whole strings, no junk:
\* << i, j, k >> with SubSeq(a, i, i+k-1) = SubSeq(b, j, j+k-1), k maximal,
\* then i minimal, then j minimal; k = 0 when nothing matches.
LongestMatch(a, b) ==
    LET Same(i, j, k) == SubSeq(a, i, i + k - 1) = SubSeq(b, j, j + k - 1)
        Fits(k) == \E i \in 1..(Len(a) - k + 1) : \E j \in 1..(Len(b) - k + 1) :
                      Same(i, j, k)
        ks == { k \in 1..Min(Len(a), Len(b)) : Fits(k) }
    IN  IF ks = { } THEN << 1, 1, 0 >>
        ELSE LET k == CHOOSE x \in ks : \A y \in ks : y <= x
                 is == { i \in 1..(Len(a) - k + 1) :
                           \E j \in 1..(Len(b) - k + 1) : Same(i, j, k) }
                 i == CHOOSE x \in is : \A y \in is : x <= y
                 js == { j \in 1..(Len(b) - k + 1) : Same(i, j, k) }
                 j == CHOOSE x \in js : \A y \in js : x <= y
             IN  << i, j, k >>

RECURSIVE MatchingChars(_, _)
\* the sum of the sizes of SequenceMatcher(None, a, b).get_matching_blocks():
\* the longest match, then the same to its left and to its right
MatchingChars(a, b) ==
    IF Len(a) = 0 \/ Len(b) = 0 THEN 0
    ELSE LET m == LongestMatch(a, b)
         IN  IF m[3] = 0 THEN 0
             ELSE m[3]
                  + MatchingChars(SubSeq(a, 1, m[1] - 1), SubSeq(b, 1, m[2] - 1))
                  + MatchingChars(SubSeq(a, m[1] + m[3], Len(a)),
                                  SubSeq(b, m[2] + m[3], Len(b)))

\* SequenceMatcher.ratio() = 2.0 * matches / (len(a) + len(b)), 1.0 for two
\* empty strings, as the fraction << numerator, denominator >>
Ratio(a, b) ==
    IF Len(a) + Len(b) = 0 THEN << 1, 1 >>
    ELSE << 2 * MatchingChars(a, b), Len(a) + Len(b) >>

\* ratio >= cutoff for cutoff = 0.6 = 3/5
AboveCutoff(r) == 5 * r[1] >= 3 * r[2]

\* (score, x) < (score', x') for Python tuples
ScoredLess(r, x, r2, x2) ==
    \/ r[1] * r2[2] < r2[1] * r[2]
    \/ r[1] * r2[2] = r2[1] * r[2] /\ StrLess(x, x2)

\* get_close_matches(word, possibilities, n=1, cutoff=0.6): None or Some of
\* the possibility of greatest (ratio, text) among those at or above the
\* cutoff
get_close_matches(word, possibilities) ==
    LET ratio == [ x \in possibilities |-> Ratio(x, word) ]
        close == { x \in possibilities : AboveCutoff(ratio[x]) }
    IN  IF close = { } THEN None
        ELSE Some(CHOOSE x \in close :
                    \A y \in close : y = x \/ ScoredLess(ratio[y], y, ratio[x], x))

\* match_player: the variants of line 205-208
Variants(p) ==
    { normalize(p.web_name),
      normalize(p.first_name \o " " \o p.second_name),
      normalize(p.second_name) }

\* match_player: player_map after the loop of lines 204-209, a later player
\* replacing an earlier one under the same variant
player_map(players_) ==
    LET keys == UNION { Variants(players_[i]) : i \in 1..Len(players_) }
        variants == [ i \in 1..Len(players_) |-> Variants(players_[i]) ]
    IN  [ v \in keys |->
            players_[CHOOSE i \in 1..Len(players_) :
                        /\ v \in variants[i]
                        /\ \A j \in 1..Len(players_) : v \in variants[j] => j <= i] ]

\* Mutant: the requested name is lower-cased but not stripped.
NameClean_NoStrip(name) == Lower(ToAscii(name))

\* match_player: name_clean, line 202
NameClean(name) == normalize(name)

\* match_player: [player, suggestion], each None or Some
match_player(name, players_) ==
    LET name_clean == NameClean(name)
        pm == player_map(players_)
    IN  IF name_clean \in DOMAIN pm
        THEN [ player |-> Some(pm[name_clean]), suggestion |-> None ]
        ELSE [ player |-> None,
               suggestion |-> get_close_matches(name_clean, DOMAIN pm) ]

(***************************************************************************)
(* match_player on its own, in the two steps of lines 211-215              *)
(***************************************************************************)
MaxPlayers == 2

PlayerPool ==
    { [ web_name |-> "Salah", first_name |-> "Mohamed", second_name |-> "Salah",
        team |-> 2, now_cost |-> 125, points_per_game |-> "7.4", status |-> "a" ],
      [ web_name |-> "M.Salah", first_name |-> "Mo", second_name |-> "Salah",
        team |-> 3, now_cost |-> 130, points_per_game |-> "6.0", status |-> "d" ],
      [ web_name |-> "Darwin", first_name |-> "Darwin", second_name |-> "Núñez",
        team |-> 2, now_cost |-> 75, points_per_game |-> "3.9", status |-> "a" ],
      [ web_name |-> "Ødegaard", first_name |-> "Martin",
        second_name |-> "Ødegaard", team |-> 1, now_cost |-> 84,
        points_per_game |-> "5.1", status |-> "i" ] }

NamePool ==
    { "Salah", " SALAH", "Mohamed Salah", "mo salah", "Salahh", "Sala",
      "Nunez", "Núñez", "Odegaard", "degaard", "Kane", "" }

InitMatch ==
    /\ pc = "lookup"
    /\ arg \in [ name : NamePool, players : SeqsUpTo(PlayerPool, MaxPlayers) ]
    /\ ret = [ player |-> None, suggestion |-> None ]
    /\ NoRequest

\* if name_clean in player_map: return player_map[name_clean], None
ExactMatch ==
    /\ pc = "lookup"
    /\ NameClean(arg.name) \in DOMAIN player_map(arg.players)
    /\ ret' = match_player(arg.name, arg.players)
    /\ pc' = "done"
    /\ UNCHANGED << arg, requestVars >>

\* name_clean is no key: get_close_matches is called
NoExactMatch ==
    /\ pc = "lookup"
    /\ NameClean(arg.name) \notin DOMAIN player_map(arg.players)
    /\ pc' = "close"
    /\ UNCHANGED << arg, ret, requestVars >>

\* return (None, close[0]) if close else (None, None)
CloseMatch ==
    /\ pc = "close"
    /\ ret' = match_player(arg.name, arg.players)
    /\ pc' = "done"
    /\ UNCHANGED << arg, requestVars >>

NextMatch == ExactMatch \/ NoExactMatch \/ CloseMatch

SpecMatch == InitMatch /\ [][NextMatch]_vars

\* The normalized name variants of a player: display name, 'first last' and
\* surname.
NameVariants(p) ==
    { normalize(p.web_name),
      normalize(p.first_name \o " " \o p.second_name),
      normalize(p.second_name) }

\* Some player of the list has the normalized requested name as a variant.
HasExactVariant ==
    \E p \in Range(arg.players) : normalize(arg.name) \in NameVariants(p)

\* C8: when the normalized requested name equals a normalized variant of
\* some player, match_player returns a player having that variant and no
\* suggestion, without reaching the approximate matching; it returns no
\* player only when no variant equals the normalized name.
C8_ExactMatchFirst ==
    /\ pc = "close" => ~HasExactVariant
    /\ pc = "done" =>
         IF HasExactVariant
         THEN /\ Len(ret.player) = 1
              /\ ret.player[1] \in Range(arg.players)
              /\ normalize(arg.name) \in NameVariants(ret.player[1])
              /\ ret.suggestion = None
         ELSE ret.player = None

\* C8 witness: the requested name, not in normalized form as given, is a
\* variant shared by two players, and also within the cutoff of another key.
C8_Witness ==
    /\ pc = "done"
    /\ arg.name # normalize(arg.name)
    /\ Len(arg.players) = 2
    /\ \A p \in Range(arg.players) : normalize(arg.name) \in NameVariants(p)
    /\ arg.players[1] # arg.players[2]
    /\ ret.player = Some(arg.players[2])
    /\ get_close_matches(normalize(arg.name),
                         DOMAIN player_map(arg.players) \ { normalize(arg.name) })
         # None

(***************************************************************************)
(* The /compare request.  The upstream data are well-formed: the handler's *)
(* catch-all of line 353 is reached by no request of the model.            *)
(***************************************************************************)
RECURSIVE Split(_, _)
\* s.split(sep) for a separator of one character
Split(s, sep) ==
    LET at == { i \in 1..Len(s) : Char(s, i) = sep }
    IN  IF at = { } THEN << s >>
        ELSE LET i == CHOOSE x \in at : \A y \in at : x <= y
             IN  << SubSeq(s, 1, i - 1) >> \o Split(SubSeq(s, i + 1, Len(s)), sep)

RECURSIVE NonEmpty(_)
NonEmpty(ns) ==
    IF Len(ns) = 0 THEN << >>
    ELSE IF Head(ns) = "" THEN NonEmpty(Tail(ns))
    ELSE << Head(ns) >> \o NonEmpty(Tail(ns))

\* Mutant: empty names are dropped from the list.
ParseNames_SkipEmpty(q) ==
    LET parts == Split(q, ",")
    IN  NonEmpty([ i \in 1..Len(parts) |-> Strip(parts[i]) ])

\* names = [n.strip() for n in query.split(",")]
ParseNames(q) ==
    LET parts == Split(q, ",")
    IN  [ i \in 1..Len(parts) |-> Strip(parts[i]) ]

\* `not query`
QueryMissing(q) == q = None \/ q = Some("")

\* Mutant: the status is left out of the return, so Flask answers 200.
MissingPlayersResponse_Status200 ==
    [ status |-> 200, kind |-> "object",
      body |-> [ error |-> "Missing 'players' parameter" ] ]

\* jsonify({"error": ...}), 400
MissingPlayersResponse ==
    [ status |-> 400, kind |-> "object",
      body |-> [ error |-> "Missing 'players' parameter" ] ]

\* jsonify({"error": ...}), 500
FplUnavailableResponse ==
    [ status |-> 500, kind |-> "object",
      body |-> [ error |-> "Unable to load FPL data. Please try again later." ] ]

\* the response of lines 345-352; Flask's default status
ResultsResponse(rs) ==
    [ status |-> 200, kind |-> "array", body |-> rs ]

BootstrapUrl == "https://fantasy.premierleague.com/api/bootstrap-static/"
FixturesUrl == "https://fantasy.premierleague.com/api/fixtures/"

\* load_historical_data: seasons
seasons ==
    << [ code |-> "2023-24", name |-> "2023/24" ],
       [ code |-> "2022-23", name |-> "2022/23" ] >>

SeasonUrl(s) ==
    "https://raw.githubusercontent.com/openfootball/football.json/master/"
        \o seasons[s].code \o "/en.1.json"

\* Mutant: the handler of a failed request keeps what was already fetched.
FplFetchFailed_KeepsStatic ==
    [ players |-> IF static = None THEN << >> ELSE static[1].elements,
      teams |-> IF static = None THEN << >> ELSE static[1].teams,
      fixtures |-> << >> ]

\* load_fpl_data: what it returns when anything in its try block raises
FplFetchFailed == [ players |-> << >>, teams |-> << >>, fixtures |-> << >> ]

\* load_historical_data: the matches of one season's body that have a
\* full-time score, each given its season, lines 60-63
RECURSIVE SeasonMatches(_, _)
SeasonMatches(raw, season_name) ==
    IF Len(raw) = 0 THEN << >>
    ELSE LET match == Head(raw)
             rest == SeasonMatches(Tail(raw), season_name)
         IN  IF Len(match.ft) = 1
             THEN << [ team1 |-> match.team1, team2 |-> match.team2,
                       date |-> match.date, season |-> season_name,
                       ft |-> match.ft[1] ] >> \o rest
             ELSE rest

\* player['now_cost'] / 10 as JSON shows it
PriceText(now_cost) ==
    ToString(now_cost \div 10) \o "." \o ToString(now_cost % 10)

\* float(player['points_per_game']) as JSON shows it, for a decimal text
FloatText(text) ==
    IF \E i \in 1..Len(text) : Char(text, i) = "." THEN text ELSE text \o ".0"

\* compare_players: player_data, lines 323-335
PlayerData(player, teams_, fixtures_, hist) ==
    LET team_name == get_team_name(player.team, teams_)
        next_games == get_next_fixtures(player.team, fixtures_, teams_, hist)
    IN  [ player |-> player.first_name \o " " \o player.second_name,
          team |-> team_name,
          price |-> PriceText(player.now_cost),
          ppg |-> FloatText(player.points_per_game),
          status |-> player.status,
          summary |-> summarize_difficulty(next_games),
          fixtures |-> next_games ]

\* compare_players: msg, lines 338-342
NoMatch(name, suggestion) ==
    IF suggestion # None /\ suggestion # Some("")
    THEN [ error |-> "No match for '" \o name \o "'",
           suggestion |-> suggestion[1] ]
    ELSE [ error |-> "No match for '" \o name \o "'" ]

\* compare_players: what one turn of the loop of lines 320-343 appends
ResultFor(name, players_, teams_, fixtures_, hist) ==
    LET m == match_player(name, players_)
    IN  IF m.player # None
        THEN PlayerData(m.player[1], teams_, fixtures_, hist)
        ELSE NoMatch(name, m.suggestion)

(***************************************************************************)
(* The requests and the upstream answers of the model                      *)
(***************************************************************************)
MaxNames == 2

RequestNames == { "Salah", " odegard", "", "Kane" }

Queries ==
    { None } \cup { Some(Join(",", ns)) : ns \in SeqsUpTo(RequestNames, MaxNames) }

StaticBodies ==
    { [ elements |-> << >>, teams |-> TeamsWorld ],
      [ elements |->
          << [ web_name |-> "Salah", first_name |-> "Mohamed",
               second_name |-> "Salah", team |-> 2, now_cost |-> 125,
               points_per_game |-> "7.4", status |-> "a" ],
             [ web_name |-> "Ødegaard", first_name |-> "Martin",
               second_name |-> "Ødegaard", team |-> 1, now_cost |-> 84,
               points_per_game |-> "5.1", status |-> "i" ] >>,
        teams |-> TeamsWorld ] }

FixturesBodies ==
    { << [ team_h |-> 1, team_a |-> 2, team_h_difficulty |-> 4,
           team_a_difficulty |-> 4, kickoff_time |-> 20240831 ],
         [ team_h |-> 3, team_a |-> 1, team_h_difficulty |-> 4,
           team_a_difficulty |-> 3, kickoff_time |-> 20240817 ],
         [ team_h |-> 2, team_a |-> 3, team_h_difficulty |-> 2,
           team_a_difficulty |-> 5, kickoff_time |-> 20240824 ] >> }

\* One body per season, in the order of seasons; ft is None for a match
\* without a full-time score.
SeasonBodies ==
    << << [ team1 |-> "Arsenal FC", team2 |-> "Liverpool FC",
            date |-> 20240204, ft |-> Some(<< 3, 1 >>) ],
          [ team1 |-> "Liverpool FC", team2 |-> "Tottenham Hotspur FC",
            date |-> 20240505, ft |-> None ] >>,
       << [ team1 |-> "Tottenham Hotspur FC", team2 |-> "Arsenal FC",
            date |-> 20230115, ft |-> Some(<< 0, 2 >>) ],
          [ team1 |-> "Liverpool FC", team2 |-> "Arsenal FC",
            date |-> 20230409, ft |-> Some(<< 2, 2 >>) ] >> >>

Init ==
    /\ pc = "start"
    /\ query \in Queries
    /\ names = << >>
    /\ static = None
    /\ players = << >>
    /\ teams = << >>
    /\ fixtures = << >>
    /\ historical_matches = << >>
    /\ all_matches = << >>
    /\ season = 1
    /\ results = << >>
    /\ response = None
    /\ calls = << >>
    /\ arg = << >>
    /\ ret = << >>

dataVars == << players, teams, fixtures >>
histVars == << historical_matches, all_matches, season >>

\* lines 306-308: the parameter is missing or empty
RejectMissingPlayers ==
    /\ pc = "start"
    /\ QueryMissing(query)
    /\ response' = Some(MissingPlayersResponse)
    /\ pc' = "done"
    /\ UNCHANGED << query, names, static, dataVars, histVars, results, calls,
                    arg, ret >>

\* line 310
ParseQuery ==
    /\ pc = "start"
    /\ ~QueryMissing(query)
    /\ names' = ParseNames(query[1])
    /\ pc' = "load_static"
    /\ UNCHANGED << query, static, dataVars, histVars, results, response,
                    calls, arg, ret >>

\* load_fpl_data, line 193: the bootstrap request answers
FetchStatic ==
    /\ pc = "load_static"
    /\ \E body \in StaticBodies :
         static' = Some(body)
    /\ calls' = Append(calls, [ url |-> BootstrapUrl, outcome |-> "ok" ])
    /\ pc' = "load_fixtures"
    /\ UNCHANGED << query, names, dataVars, histVars, results, response,
                    arg, ret >>

\* load_fpl_data, line 193 raises: lines 196-198
FetchStaticFails ==
    /\ pc = "load_static"
    /\ calls' = Append(calls, [ url |-> BootstrapUrl, outcome |-> "error" ])
    /\ players' = FplFetchFailed.players
    /\ teams' = FplFetchFailed.teams
    /\ fixtures' = FplFetchFailed.fixtures
    /\ pc' = "loaded"
    /\ UNCHANGED << query, names, static, histVars, results, response,
                    arg, ret >>

\* load_fpl_data, lines 194-195: the fixtures request answers
FetchFixtures ==
    /\ pc = "load_fixtures"
    /\ \E body \in FixturesBodies :
         fixtures' = body
    /\ calls' = Append(calls, [ url |-> FixturesUrl, outcome |-> "ok" ])
    /\ players' = static[1].elements
    /\ teams' = static[1].teams
    /\ pc' = "loaded"
    /\ UNCHANGED << query, names, static, histVars, results, response,
                    arg, ret >>

\* load_fpl_data, line 194 raises: lines 196-198
FetchFixturesFails ==
    /\ pc = "load_fixtures"
    /\ calls' = Append(calls, [ url |-> FixturesUrl, outcome |-> "error" ])
    /\ players' = FplFetchFailed.players
    /\ teams' = FplFetchFailed.teams
    /\ fixtures' = FplFetchFailed.fixtures
    /\ pc' = "loaded"
    /\ UNCHANGED << query, names, static, histVars, results, response,
                    arg, ret >>

\* lines 313-314
RejectNoPlayers ==
    /\ pc = "loaded"
    /\ players = << >>
    /\ response' = Some(FplUnavailableResponse)
    /\ pc' = "done"
    /\ UNCHANGED << query, names, static, dataVars, histVars, results, calls,
                    arg, ret >>

\* Mutant: the historical data are loaded before the players are checked.
StartHistorical_Unchecked ==
    /\ pc = "loaded"
    /\ all_matches' = << >>
    /\ season' = 1
    /\ pc' = "load_season"
    /\ UNCHANGED << query, names, static, dataVars, historical_matches,
                    results, response, calls, arg, ret >>

\* line 317 calls load_historical_data: lines 49-54
StartHistorical ==
    /\ pc = "loaded"
    /\ players # << >>
    /\ all_matches' = << >>
    /\ season' = 1
    /\ pc' = "load_season"
    /\ UNCHANGED << query, names, static, dataVars, historical_matches,
                    results, response, calls, arg, ret >>

\* load_historical_data: after the request of a season, the next season or
\* `return all_matches`
AfterSeason(matches) ==
    /\ all_matches' = matches
    /\ season' = season + 1
    /\ IF season = Len(seasons)
       THEN historical_matches' = matches /\ pc' = "compare"
       ELSE historical_matches' = historical_matches /\ pc' = "load_season"

\* load_historical_data, lines 57-63: the season's request answers 200
FetchSeason ==
    /\ pc = "load_season"
    /\ season <= Len(seasons)
    /\ calls' = Append(calls, [ url |-> SeasonUrl(season), outcome |-> "ok" ])
    /\ AfterSeason(all_matches \o
                   SeasonMatches(SeasonBodies[season], seasons[season].name))
    /\ UNCHANGED << query, names, static, dataVars, results, response,
                    arg, ret >>

\* load_historical_data, line 58: the season's request answers another status
FetchSeasonNotFound ==
    /\ pc = "load_season"
    /\ season <= Len(seasons)
    /\ calls' = Append(calls, [ url |-> SeasonUrl(season), outcome |-> "404" ])
    /\ AfterSeason(all_matches)
    /\ UNCHANGED << query, names, static, dataVars, results, response,
                    arg, ret >>

\* Mutant: the exception is not caught in load_historical_data and reaches
\* the handler's catch-all.
FetchSeasonFails_Propagates ==
    /\ pc = "load_season"
    /\ season <= Len(seasons)
    /\ calls' = Append(calls, [ url |-> SeasonUrl(season), outcome |-> "error" ])
    /\ response' = Some([ status |-> 500, kind |-> "object",
                          body |-> [ error |-> "Server error: timeout" ] ])
    /\ pc' = "done"
    /\ UNCHANGED << query, names, static, dataVars, histVars, results,
                    arg, ret >>

\* load_historical_data, lines 66-68: the season's request raises
FetchSeasonFails ==
    /\ pc = "load_season"
    /\ season <= Len(seasons)
    /\ calls' = Append(calls, [ url |-> SeasonUrl(season), outcome |-> "error" ])
    /\ historical_matches' = << >>
    /\ pc' = "compare"
    /\ UNCHANGED << query, names, static, dataVars, all_matches, season,
                    results, response, arg, ret >>

\* one turn of the loop of lines 320-343
CompareName ==
    /\ pc = "compare"
    /\ Len(results) < Len(names)
    /\ results' = Append(results,
                         ResultFor(names[Len(results) + 1], players, teams,
                                   fixtures, historical_matches))
    /\ UNCHANGED << pc, query, names, static, dataVars, histVars, response,
                    calls, arg, ret >>

\* lines 345-352
Respond ==
    /\ pc = "compare"
    /\ Len(results) = Len(names)
    /\ response' = Some(ResultsResponse(results))
    /\ pc' = "done"
    /\ UNCHANGED << query, names, static, dataVars, histVars, results, calls,
                    arg, ret >>

Next ==
    \/ RejectMissingPlayers
    \/ ParseQuery
    \/ FetchStatic
    \/ FetchStaticFails
    \/ FetchFixtures
    \/ FetchFixturesFails
    \/ RejectNoPlayers
    \/ StartHistorical
    \/ FetchSeason
    \/ FetchSeasonNotFound
    \/ FetchSeasonFails
    \/ CompareName
    \/ Respond

Spec == Init /\ [][Next]_vars

(***************************************************************************)
(* Properties of the /compare request                                      *)
(***************************************************************************)
Responded == Len(response) = 1

IsErrorBody(r) ==
    /\ r.kind = "object"
    /\ "error" \in DOMAIN r.body
    /\ Len(r.body.error) > 0

FplCalls == { i \in 1..Len(calls) : calls[i].url \in { BootstrapUrl, FixturesUrl } }
HistCalls == { i \in 1..Len(calls) : calls[i].url \notin { BootstrapUrl, FixturesUrl } }

\* C1: a request without the `players` parameter ends with status 400 and a
\* JSON object with an `error` field; no result array is returned.
C1_MissingPlayersIs400 ==
    query = None =>
        /\ pc = "done" => Responded
        /\ Responded =>
             /\ response[1].status = 400
             /\ IsErrorBody(response[1])
        /\ results = << >>

\* C1 witness: the request without the parameter has been answered.
C1_Witness ==
    query = None /\ Responded /\ response[1].status = 400

\* C2: once a request of the fantasy API (bootstrap data or fixtures) has
\* failed, the request ends with status 500 and a JSON object with an
\* `error` field, and no per-player result is ever produced.
C2_FplFailureIs500 ==
    (\E i \in FplCalls : calls[i].outcome = "error") =>
        /\ pc \in { "loaded", "done" }
        /\ pc = "done" => Responded
        /\ Responded =>
             /\ response[1].status = 500
             /\ IsErrorBody(response[1])
        /\ results = << >>

\* C2 witness: the bootstrap data arrived with players in it, the fixtures
\* request failed, and the request of two names has been answered.
C2_Witness ==
    /\ Responded
    /\ Len(names) = 2
    /\ Len(static) = 1
    /\ static[1].elements # << >>
    /\ \E i \in FplCalls : calls[i].url = FixturesUrl /\ calls[i].outcome = "error"

\* The number of comma-separated names of a query text.
NameCount(q) == 1 + Cardinality({ i \in 1..Len(q) : Char(q, i) = "," })

\* The i-th comma-separated name of a query text, surrounding blanks
\* removed: the text between the (i-1)-th and the i-th comma.
RequestedName(q, i) ==
    LET commas == { k \in 1..Len(q) : Char(q, k) = "," }
        Before(k) == Cardinality({ c \in commas : c < k })
        from == IF i = 1 THEN 1
                ELSE 1 + CHOOSE k \in commas : Before(k) = i - 2
        to == IF i = NameCount(q) THEN Len(q)
              ELSE (CHOOSE k \in commas : Before(k) = i - 1) - 1
    IN  Strip(SubSeq(q, from, to))

\* C3: a successful response is an array with exactly one entry per
\* comma-separated name of the parameter, the i-th entry for the i-th name:
\* the result of a player one of whose variants is the normalized name, or
\* an error object naming it when no player has such a variant.
C3_OneEntryPerName ==
    (Responded /\ response[1].status = 200) =>
        LET out == response[1].body
            q == query[1]
        IN  /\ response[1].kind = "array"
            /\ Len(out) = NameCount(q)
            /\ \A i \in 1..Len(out) :
                 LET name == RequestedName(q, i)
                     named == { p \in Range(players) :
                                  normalize(name) \in NameVariants(p) }
                 IN  IF named # { }
                     THEN /\ "error" \notin DOMAIN out[i]
                          /\ \E p \in named :
                               /\ out[i].player = p.first_name \o " " \o p.second_name
                               /\ out[i].status = p.status
                     ELSE /\ "error" \in DOMAIN out[i]
                          /\ out[i].error = "No match for '" \o name \o "'"

\* C3 witness: a successful response to a request of an empty name and a
\* matched name.
C3_Witness ==
    /\ Responded
    /\ response[1].status = 200
    /\ Len(response[1].body) = 2
    /\ names[1] = ""
    /\ "error" \in DOMAIN response[1].body[1]
    /\ "error" \notin DOMAIN response[1].body[2]

\* C3 witness of a repeated name: both entries are the player's.
C3_WitnessRepeated ==
    /\ Responded
    /\ response[1].status = 200
    /\ Len(response[1].body) = 2
    /\ names[1] = names[2]
    /\ "error" \notin DOMAIN response[1].body[1]
    /\ response[1].body[1] = response[1].body[2]

FailedSeasons ==
    { seasons[s].name : s \in { s \in 1..Len(seasons) :
        \E i \in HistCalls : /\ calls[i].url = SeasonUrl(s)
                             /\ calls[i].outcome # "ok" } }

HistRaised == \E i \in HistCalls : calls[i].outcome = "error"

\* The head-to-head blocks of the fixtures of the per-player results.
H2HBlocks(rs) ==
    UNION { UNION { Range(rs[i].fixtures[j].head_to_head) :
                      j \in 1..Len(rs[i].fixtures) } :
            i \in { i \in 1..Len(rs) : "error" \notin DOMAIN rs[i] } }

\* C4: a failed request of the historical data never fails the request: it
\* ends with status 200 and its per-player results, one per name; after an
\* exception no fixture carries a head-to-head block, and no block holds a
\* match of a season whose request did not answer 200.
C4_HistoricalFailureDegrades ==
    FailedSeasons # { } =>
        /\ pc \in { "load_season", "compare", "done" }
        /\ pc = "done" => Responded
        /\ Responded =>
             /\ response[1].status = 200
             /\ response[1].kind = "array"
             /\ Len(response[1].body) = Len(names)
        /\ HistRaised => H2HBlocks(results) = { }
        /\ \A b \in H2HBlocks(results) : \A m \in Range(b.matches) :
             m.season \notin FailedSeasons

\* C4 witness: the first season was loaded with matches of the player's
\* pairings, the second season's request raised, and the answer holds the
\* player's fixtures, none with a head-to-head block.
C4_Witness ==
    /\ Responded
    /\ response[1].status = 200
    /\ all_matches # << >>
    /\ HistRaised
    /\ \E i \in 1..Len(response[1].body) :
         /\ "error" \notin DOMAIN response[1].body[i]
         /\ Len(response[1].body[i].fixtures) >= 2
         /\ \A j \in 1..Len(response[1].body[i].fixtures) :
              response[1].body[i].fixtures[j].head_to_head = None

\* C10: no outbound request is made before the parameter is validated, and
\* none at all for a 400; the historical data are requested only after both
\* fantasy-API requests answered and gave players, and never for a 500; each
\* season is requested at most once, however many names are requested.
C10_FetchOrder ==
    /\ (pc = "start" \/ QueryMissing(query)) => calls = << >>
    /\ (Responded /\ response[1].status = 400) => calls = << >>
    /\ (Responded /\ response[1].status = 500) => HistCalls = { }
    /\ \A i \in HistCalls :
         /\ players # << >>
         /\ i > 2
         /\ calls[1] = [ url |-> BootstrapUrl, outcome |-> "ok" ]
         /\ calls[2] = [ url |-> FixturesUrl, outcome |-> "ok" ]
    /\ \A i, j \in 1..Len(calls) : calls[i].url = calls[j].url => i = j
    /\ Len(calls) <= 2 + Len(seasons)

\* C10 witness: a request of two names answered after the four requests.
C10_Witness ==
    /\ Responded
    /\ Len(names) = 2
    /\ Len(results) = 2
    /\ Len(calls) = 4
    /\ Cardinality(HistCalls) = 2

=============================================================================
